---- MODULE Spec2Model ----
(***************************************************************************)
(* os_display: the PowerShell encoder (src/src/windows.rs) and the         *)
(* Display dispatch that calls it (src/src/lib.rs).                        *)
(*                                                                         *)
(* A character is its Unicode code point, a string is a sequence of code   *)
(* points, a raw UTF-16 buffer is a sequence of 16-bit units.  The output  *)
(* of a formatting call is the sequence of writes made to the sink, each   *)
(* write being the string handed to one write_char / write_str call.       *)
(***************************************************************************)
EXTENDS Integers, Sequences, FiniteSets

VARIABLES kind, source, force_quote, pc, pending, out, result, late

vars == <<kind, source, force_quote, pc, pending, out, result, late>>

(***************************************************************************)
(* Bounds of the model.                                                    *)
(***************************************************************************)
\* longest text over the quoting / escaping alphabet and the first-character alphabet
MaxLen == 3
\* longest text over the whole alphabet
MaxWideLen == 2
\* longest raw UTF-16 buffer
MaxRawLen == 3
\* longest source formatted into a sink that may fail
MaxSinkLen == 2

SeqsUpTo(S, n) == UNION {[1..k -> S] : k \in 0..n}

\* a ' " U+2018 U+201C ` $ LF U+0002 RLO(U+202E) PDF(U+202C)
QuoteChars == {97, 39, 34, 8216, 8220, 96, 36, 10, 2, 8238, 8236}

\* a 1 . # - U+2014
StartChars == {97, 49, 46, 35, 45, 8212}

\* the rest: ~ @ ! U+2013 U+2015 U+200B space , \ NBSP U+2000 NUL CR TAB BEL BS
\* VT FF ESC DEL U+0085 U+2028 LRI(U+2066) PDI(U+2069) u { } U+1F600
AllChars ==
    QuoteChars \cup StartChars \cup
    {126, 64, 33, 8211, 8213, 8203, 32, 44, 92, 160, 8192, 0, 13, 9, 7, 8,
     11, 12, 27, 127, 133, 8232, 8294, 8297, 117, 123, 125, 128512}

Texts ==
    SeqsUpTo(QuoteChars, MaxLen) \cup SeqsUpTo(StartChars, MaxLen)
        \cup SeqsUpTo(AllChars, MaxWideLen)

\* x " U+0002 and a high (U+D800) and a low (U+DC00) surrogate
RawUnits == {120, 34, 2, 55296, 56320}

RawBuffers == SeqsUpTo(RawUnits, MaxRawLen)

\* a A ' " \ U+0002 U+00E9 U+2029
UnixChars == {97, 65, 39, 34, 92, 2, 233, 8233}

UnixTexts == SeqsUpTo(UnixChars, MaxLen)

\* a ' " U+0002, the bytes C3 A9 (U+00E9) and E2 80 A9 (U+2029), and FF
UnixBytes == {97, 39, 34, 2, 195, 169, 226, 128, 255}

UnixBuffers == SeqsUpTo(UnixBytes, MaxRawLen)

\* a ' " LF U+0002
SinkChars == {97, 39, 34, 10, 2}

\* x and a high surrogate
SinkUnits == {120, 55296}

(***************************************************************************)
(* Strings.                                                                *)
(***************************************************************************)
RECURSIVE Flatten(_)
Flatten(chunks) ==
    IF chunks = <<>> THEN <<>> ELSE Head(chunks) \o Flatten(Tail(chunks))

\* char::len_utf8
len_utf8(ch) ==
    IF ch < 128 THEN 1 ELSE IF ch < 2048 THEN 2 ELSE IF ch < 65536 THEN 3 ELSE 4

\* str::len: the length of a text in UTF-8 bytes
RECURSIVE str_len(_)
str_len(text) ==
    IF text = <<>> THEN 0 ELSE len_utf8(Head(text)) + str_len(Tail(text))

is_ascii(ch) == ch < 128

is_ascii_digit(ch) == ch \in 48..57

is_ascii_control_no_del(ch) == ch < 32

is_ascii_control(ch) == ch < 32 \/ ch = 127

HexDigit(d) == IF d < 10 THEN 48 + d ELSE 55 + d

RECURSIVE UpperHex(_)
UpperHex(n) ==
    IF n < 16 THEN <<HexDigit(n)>> ELSE UpperHex(n \div 16) \o <<HexDigit(n % 16)>>

RECURSIVE ZeroPad(_, _)
ZeroPad(digits, width) ==
    IF Len(digits) >= width THEN digits ELSE ZeroPad(<<48>> \o digits, width)

\* {:0wX}
FormatHex(n, width) == ZeroPad(UpperHex(n), width)

(***************************************************************************)
(* Constant tables of windows.rs.                                          *)
(***************************************************************************)
\* b"|&;<>()$`\"'*?[]=,{} "
SPECIAL_SHELL_CHARS ==
    {124, 38, 59, 60, 62, 40, 41, 36, 96, 34, 39, 42, 63, 91, 93, 61, 44, 123, 125, 32}

\* ~ # @ !
SPECIAL_SHELL_CHARS_START == {126, 35, 64, 33}

\* " ` $
DOUBLE_UNSAFE == {34, 96, 36}

(***************************************************************************)
(* mod unicode of windows.rs.                                              *)
(***************************************************************************)
is_separator(ch) ==
    ch \in {32, 160, 5760, 8192, 8193, 8194, 8195, 8196, 8197, 8198, 8199, 8200,
            8201, 8202, 8232, 8233, 8239, 8287, 12288}

is_whitespace(ch) ==
    \/ ch \in {32, 9, 11, 12}
    \/ ch \in {160, 133}
    \/ is_separator(ch)

is_dash(ch) == ch \in {45, 8211, 8212, 8213}

is_single_quote(ch) == ch \in {39, 8216, 8217, 8218, 8219}

is_double_quote(ch) == ch \in {34, 8220, 8221, 8222}

(***************************************************************************)
(* The shared classifier of lib.rs (crate::is_bidi, crate::requires_escape,*)
(* crate::is_suspicious_bidi) and unicode_width's zero-width test.         *)
(***************************************************************************)
\* U+202A..U+202E, U+2066..U+2069, U+200E..U+200F
is_bidi(ch) == ch \in (8234..8238) \cup (8294..8297) \cup (8206..8207)

\* control characters (C0, DEL, C1) and the line and paragraph separators
requires_escape(ch) == ch < 32 \/ ch \in 127..159 \/ ch \in {8232, 8233}

\* Nesting of the directional embeddings/overrides (closed by U+202C) and of
\* the isolates (closed by U+2069): suspicious when a close has no matching
\* open of its own kind, or an open is never closed.
RECURSIVE bidi_walk(_, _)
bidi_walk(text, stack) ==
    IF text = <<>> THEN stack # <<>>
    ELSE LET ch == Head(text)
             rest == Tail(text)
         IN  IF ch \in {8234, 8235, 8237, 8238} THEN bidi_walk(rest, <<"F">> \o stack)
             ELSE IF ch \in {8294, 8295, 8296} THEN bidi_walk(rest, <<"I">> \o stack)
             ELSE IF ch = 8236
                  THEN IF stack = <<>> \/ Head(stack) # "F" THEN TRUE
                       ELSE bidi_walk(rest, Tail(stack))
             ELSE IF ch = 8297
                  THEN IF stack = <<>> \/ Head(stack) # "I" THEN TRUE
                       ELSE bidi_walk(rest, Tail(stack))
             ELSE bidi_walk(rest, stack)

is_suspicious_bidi(text) == bidi_walk(text, <<>>)

\* first.width().unwrap_or(0) == 0: control characters have no width, format
\* characters and combining marks have width 0
width_is_zero(ch) ==
    \/ ch < 32
    \/ ch \in 127..159
    \/ ch \in 768..879
    \/ ch \in 8203..8207
    \/ ch \in 8234..8238
    \/ ch \in 8288..8292
    \/ ch \in 8294..8303
    \/ ch = 65279

(***************************************************************************)
(* windows::write: the classification pass.                                *)
(***************************************************************************)
\* lines 26-69 without the '.'-digit rule
first_char_rules_no_dot(text, fq) ==
    IF fq THEN TRUE
    ELSE IF text = <<>> THEN TRUE
    ELSE LET first == text[1]
         IN  \/ first \in SPECIAL_SHELL_CHARS_START
             \/ is_ascii_digit(first)
             \/ (is_dash(first) /\ str_len(text) > 1)
             \/ width_is_zero(first)

\* requires_quote after the first-character block
first_char_rules(text, fq) ==
    IF fq THEN TRUE
    ELSE IF text = <<>> THEN TRUE
    ELSE LET first == text[1]
         IN  \/ first \in SPECIAL_SHELL_CHARS_START
             \/ is_ascii_digit(first)
             \/ (first = 46 /\ Len(text) >= 2 /\ is_ascii_digit(text[2]))
             \/ (is_dash(first) /\ str_len(text) > 1)
             \/ width_is_zero(first)

\* the flags a loop iteration leaves, and whether it returned into write_escaped
scan_ascii(st, ch) ==
    [is_single_safe |-> st.is_single_safe /\ ch # 39,
     is_double_safe |-> st.is_double_safe /\ ch \notin DOUBLE_UNSAFE,
     requires_quote |-> st.requires_quote \/ ch \in SPECIAL_SHELL_CHARS,
     is_bidi        |-> st.is_bidi,
     escaped        |-> is_ascii_control(ch)]

\* the non-ASCII branch with the quote tests guarded by !requires_quote alone
scan_non_ascii_guarded(st, ch) ==
    LET rq1 == st.requires_quote \/ is_whitespace(ch)
        dq  == (~rq1) /\ is_double_quote(ch)
        ds2 == IF dq THEN FALSE ELSE st.is_double_safe
        rq2 == rq1 \/ dq
        sq  == (~rq2) /\ is_single_quote(ch)
        ss2 == IF sq THEN FALSE ELSE st.is_single_safe
        rq3 == rq2 \/ sq
    IN  [is_single_safe |-> ss2,
         is_double_safe |-> ds2,
         requires_quote |-> rq3,
         is_bidi        |-> st.is_bidi \/ is_bidi(ch),
         escaped        |-> requires_escape(ch)]

scan_non_ascii(st, ch) ==
    LET rq1 == st.requires_quote \/ is_whitespace(ch)
        dq  == (~rq1 \/ st.is_double_safe) /\ is_double_quote(ch)
        ds2 == IF dq THEN FALSE ELSE st.is_double_safe
        rq2 == rq1 \/ dq
        sq  == (~rq2 \/ st.is_single_safe) /\ is_single_quote(ch)
        ss2 == IF sq THEN FALSE ELSE st.is_single_safe
        rq3 == rq2 \/ sq
    IN  [is_single_safe |-> ss2,
         is_double_safe |-> ds2,
         requires_quote |-> rq3,
         is_bidi        |-> st.is_bidi \/ is_bidi(ch),
         escaped        |-> requires_escape(ch)]

scan_step(st, ch) ==
    IF is_ascii(ch) THEN scan_ascii(st, ch) ELSE scan_non_ascii(st, ch)

\* for ch in text.chars() { ... }, left at the first return
RECURSIVE scan(_, _)
scan(st, text) ==
    IF text = <<>> \/ st.escaped THEN st
    ELSE scan(scan_step(st, Head(text)), Tail(text))

classify(text, fq) ==
    scan([is_single_safe |-> TRUE,
          is_double_safe |-> TRUE,
          requires_quote |-> first_char_rules(text, fq),
          is_bidi        |-> FALSE,
          escaped        |-> FALSE], text)

(***************************************************************************)
(* The writers.  Each returns the sequence of writes it makes.             *)
(***************************************************************************)
write_simple(text, quote) == << <<quote>>, text, <<quote>> >>

\* text.match_indices(unicode::is_single_quote): pos is the (1-based) start of
\* the run not yet written, i the character being looked at
RECURSIVE single_escaped_runs(_, _, _)
single_escaped_runs(text, pos, i) ==
    IF i > Len(text) THEN << SubSeq(text, pos, Len(text)) >>
    ELSE IF is_single_quote(text[i])
         THEN << SubSeq(text, pos, i - 1), <<39>> >> \o single_escaped_runs(text, i, i + 1)
         ELSE single_escaped_runs(text, pos, i + 1)

\* write_single_escaped that copies the text without doubling any quote
write_single_escaped_plain(text) == << <<39>>, text, <<39>> >>

write_single_escaped(text) ==
    << <<39>> >> \o single_escaped_runs(text, 1, 1) \o << <<39>> >>

Ok(ch) == [ok |-> TRUE, v |-> ch]

Err(unit) == [ok |-> FALSE, v |-> unit]

\* text.chars().map(Ok)
chars_ok(text) == [i \in 1..Len(text) |-> Ok(text[i])]

\* write!(f, "`u{{{:0wX}}}", n): the literal pieces and the number are written
\* one after the other
write_u_escape(n, width) == << <<96, 117, 123>>, FormatHex(n, width), <<125>> >>

\* the match of write_escaped with the double-quote arm missing
escape_item_no_dq(item) ==
    LET ch == item.v
    IN  IF ~item.ok THEN write_u_escape(ch, 4)
        ELSE IF ch = 0 THEN << <<96, 48>> >>
        ELSE IF ch = 13 THEN << <<96, 114>> >>
        ELSE IF ch = 10 THEN << <<96, 110>> >>
        ELSE IF ch = 9 THEN << <<96, 116>> >>
        ELSE IF ch = 7 THEN << <<96, 97>> >>
        ELSE IF ch = 8 THEN << <<96, 98>> >>
        ELSE IF ch = 11 THEN << <<96, 118>> >>
        ELSE IF ch = 12 THEN << <<96, 102>> >>
        ELSE IF requires_escape(ch) \/ is_bidi(ch) THEN write_u_escape(ch, 2)
        ELSE IF ch = 96 THEN << <<96, 96>> >>
        ELSE IF ch = 36 THEN << <<96, 36>> >>
        ELSE << <<ch>> >>

\* the match of write_escaped with a double-quote-like character doubled
\* instead of taking a backtick
escape_item_dq_doubled(item) ==
    LET ch == item.v
    IN  IF ~item.ok THEN write_u_escape(ch, 4)
        ELSE IF ch = 0 THEN << <<96, 48>> >>
        ELSE IF ch = 13 THEN << <<96, 114>> >>
        ELSE IF ch = 10 THEN << <<96, 110>> >>
        ELSE IF ch = 9 THEN << <<96, 116>> >>
        ELSE IF ch = 7 THEN << <<96, 97>> >>
        ELSE IF ch = 8 THEN << <<96, 98>> >>
        ELSE IF ch = 11 THEN << <<96, 118>> >>
        ELSE IF ch = 12 THEN << <<96, 102>> >>
        ELSE IF requires_escape(ch) \/ is_bidi(ch) THEN write_u_escape(ch, 2)
        ELSE IF ch = 96 THEN << <<96, 96>> >>
        ELSE IF ch = 36 THEN << <<96, 36>> >>
        ELSE IF is_double_quote(ch) THEN << <<ch>>, <<ch>> >>
        ELSE << <<ch>> >>

\* the writes of one iteration of write_escaped's loop
escape_item(item) ==
    LET ch == item.v
    IN  IF ~item.ok THEN write_u_escape(ch, 4)
        ELSE IF ch = 0 THEN << <<96, 48>> >>
        ELSE IF ch = 13 THEN << <<96, 114>> >>
        ELSE IF ch = 10 THEN << <<96, 110>> >>
        ELSE IF ch = 9 THEN << <<96, 116>> >>
        ELSE IF ch = 7 THEN << <<96, 97>> >>
        ELSE IF ch = 8 THEN << <<96, 98>> >>
        ELSE IF ch = 11 THEN << <<96, 118>> >>
        ELSE IF ch = 12 THEN << <<96, 102>> >>
        ELSE IF requires_escape(ch) \/ is_bidi(ch) THEN write_u_escape(ch, 2)
        ELSE IF ch = 96 THEN << <<96, 96>> >>
        ELSE IF ch = 36 THEN << <<96, 36>> >>
        ELSE IF is_double_quote(ch) THEN << <<96>>, <<ch>> >>
        ELSE << <<ch>> >>

RECURSIVE escape_items(_)
escape_items(items) ==
    IF items = <<>> THEN <<>>
    ELSE escape_item(Head(items)) \o escape_items(Tail(items))

write_escaped(items) == << <<34>> >> \o escape_items(items) \o << <<34>> >>

\* the strategy selection with the double-quoted form tried first
write_double_first(text, fq) ==
    LET st == classify(text, fq)
    IN  IF st.escaped THEN write_escaped(chars_ok(text))
        ELSE IF st.is_bidi /\ is_suspicious_bidi(text) THEN write_escaped(chars_ok(text))
        ELSE IF ~st.requires_quote THEN << text >>
        ELSE IF st.is_double_safe THEN write_simple(text, 34)
        ELSE IF st.is_single_safe THEN write_simple(text, 39)
        ELSE write_single_escaped(text)

\* the bidi test made only when the text is to be quoted
write_bidi_if_quoted(text, fq) ==
    LET st == classify(text, fq)
    IN  IF st.escaped THEN write_escaped(chars_ok(text))
        ELSE IF ~st.requires_quote THEN << text >>
        ELSE IF st.is_bidi /\ is_suspicious_bidi(text) THEN write_escaped(chars_ok(text))
        ELSE IF st.is_single_safe THEN write_simple(text, 39)
        ELSE IF st.is_double_safe THEN write_simple(text, 34)
        ELSE write_single_escaped(text)

\* windows::write
write(text, fq) ==
    LET st == classify(text, fq)
    IN  IF st.escaped THEN write_escaped(chars_ok(text))
        ELSE IF st.is_bidi /\ is_suspicious_bidi(text) THEN write_escaped(chars_ok(text))
        ELSE IF ~st.requires_quote THEN << text >>
        ELSE IF st.is_single_safe THEN write_simple(text, 39)
        ELSE IF st.is_double_safe THEN write_simple(text, 34)
        ELSE write_single_escaped(text)

(***************************************************************************)
(* lib.rs: decoding of raw UTF-16 and the dispatch of Display::fmt.        *)
(***************************************************************************)
is_surrogate(u) == u \in 55296..57343

\* core::char::decode_utf16(..).map(|res| res.map_err(|err| err.unpaired_surrogate()))
RECURSIVE decode_utf16(_)
decode_utf16(units) ==
    IF units = <<>> THEN <<>>
    ELSE LET u == Head(units)
         IN  IF ~is_surrogate(u) THEN <<Ok(u)>> \o decode_utf16(Tail(units))
             ELSE IF u >= 56320 THEN <<Err(u)>> \o decode_utf16(Tail(units))
             ELSE IF Len(units) >= 2 /\ units[2] \in 56320..57343
                  THEN <<Ok(65536 + (u - 55296) * 1024 + (units[2] - 56320))>>
                           \o decode_utf16(Tail(Tail(units)))
                  ELSE <<Err(u)>> \o decode_utf16(Tail(units))

\* String::from_utf16(units) is Ok
utf16_valid(units) == \A i \in DOMAIN decode_utf16(units) : decode_utf16(units)[i].ok

decoded_text(units) ==
    LET items == decode_utf16(units) IN [i \in 1..Len(items) |-> items[i].v]

(***************************************************************************)
(* UTF-8: str::as_bytes and core::str::from_utf8.                          *)
(***************************************************************************)
\* char::encode_utf8
utf8_encode(ch) ==
    IF ch < 128 THEN <<ch>>
    ELSE IF ch < 2048 THEN <<192 + (ch \div 64), 128 + (ch % 64)>>
    ELSE IF ch < 65536
         THEN <<224 + (ch \div 4096), 128 + ((ch \div 64) % 64), 128 + (ch % 64)>>
    ELSE <<240 + (ch \div 262144), 128 + ((ch \div 4096) % 64),
           128 + ((ch \div 64) % 64), 128 + (ch % 64)>>

\* str::as_bytes
RECURSIVE utf8_bytes(_)
utf8_bytes(text) ==
    IF text = <<>> THEN <<>> ELSE utf8_encode(Head(text)) \o utf8_bytes(Tail(text))

is_cont(b) == b \in 128..191

\* the length of the well-formed sequence the buffer begins with, or 0
utf8_head_len(bytes) ==
    LET b == bytes[1]
        n == Len(bytes)
    IN  IF b < 128 THEN 1
        ELSE IF b \in 194..223
             THEN IF n >= 2 /\ is_cont(bytes[2]) THEN 2 ELSE 0
        ELSE IF b \in 224..239
             THEN IF /\ n >= 3
                     /\ is_cont(bytes[2])
                     /\ is_cont(bytes[3])
                     /\ (b = 224 => bytes[2] >= 160)
                     /\ (b = 237 => bytes[2] <= 159)
                  THEN 3 ELSE 0
        ELSE IF b \in 240..244
             THEN IF /\ n >= 4
                     /\ is_cont(bytes[2])
                     /\ is_cont(bytes[3])
                     /\ is_cont(bytes[4])
                     /\ (b = 240 => bytes[2] >= 144)
                     /\ (b = 244 => bytes[2] <= 143)
                  THEN 4 ELSE 0
        ELSE 0

\* the character a well-formed sequence of length n stands for
utf8_head_char(bytes, n) ==
    IF n = 1 THEN bytes[1]
    ELSE IF n = 2 THEN (bytes[1] - 192) * 64 + (bytes[2] - 128)
    ELSE IF n = 3
         THEN (bytes[1] - 224) * 4096 + (bytes[2] - 128) * 64 + (bytes[3] - 128)
    ELSE (bytes[1] - 240) * 262144 + (bytes[2] - 128) * 4096
             + (bytes[3] - 128) * 64 + (bytes[4] - 128)

\* the buffer as decoded characters and, one by one, the bytes that do not decode
RECURSIVE utf8_items(_)
utf8_items(bytes) ==
    IF bytes = <<>> THEN <<>>
    ELSE LET n == utf8_head_len(bytes)
         IN  IF n = 0 THEN <<Err(Head(bytes))>> \o utf8_items(Tail(bytes))
             ELSE <<Ok(utf8_head_char(bytes, n))>>
                      \o utf8_items(SubSeq(bytes, n + 1, Len(bytes)))

\* from_utf8(bytes) is Ok
utf8_valid(bytes) == \A i \in DOMAIN utf8_items(bytes) : utf8_items(bytes)[i].ok

utf8_text(bytes) ==
    LET items == utf8_items(bytes) IN [i \in 1..Len(items) |-> items[i].v]

(***************************************************************************)
(* The POSIX encoder (mod unix).                                           *)
(***************************************************************************)
\* | & ; < > ( ) $ ` \ " ' * ? [ ] = ^ { } and space
UNIX_SPECIAL_SHELL_CHARS ==
    {124, 38, 59, 60, 62, 40, 41, 36, 96, 92, 34, 39, 42, 63, 91, 93, 61, 94,
     123, 125, 32}

\* ~ # !
UNIX_SPECIAL_SHELL_CHARS_START == {126, 35, 33}

\* " ` $ \
UNIX_DOUBLE_UNSAFE == {34, 96, 36, 92}

\* char::is_whitespace beyond ASCII
unix_is_whitespace(ch) ==
    ch \in {133, 160, 5760, 8232, 8233, 8239, 8287, 12288} \cup (8192..8202)

is_ascii_hexdigit(ch) == ch \in (48..57) \cup (65..70) \cup (97..102)

\* \xHH
unix_x_escape(byte) == << <<92, 120>>, FormatHex(byte, 2) >>

RECURSIVE unix_x_escapes(_)
unix_x_escapes(bytes) ==
    IF bytes = <<>> THEN <<>>
    ELSE unix_x_escape(Head(bytes)) \o unix_x_escapes(Tail(bytes))

\* the ANSI-C quoted body; in_escape: the last thing written was a \xHH escape
RECURSIVE unix_escape_items(_, _)
unix_escape_items(items, in_escape) ==
    IF items = <<>> THEN <<>>
    ELSE LET it == Head(items)
             ch == it.v
             rest == Tail(items)
         IN  IF ~it.ok THEN unix_x_escape(ch) \o unix_escape_items(rest, TRUE)
             ELSE IF ch = 10 THEN << <<92, 110>> >> \o unix_escape_items(rest, FALSE)
             ELSE IF ch = 9 THEN << <<92, 116>> >> \o unix_escape_items(rest, FALSE)
             ELSE IF ch = 13 THEN << <<92, 114>> >> \o unix_escape_items(rest, FALSE)
             ELSE IF requires_escape(ch) \/ is_bidi(ch)
                  THEN unix_x_escapes(utf8_encode(ch)) \o unix_escape_items(rest, TRUE)
             ELSE IF ch \in {92, 39}
                  THEN << <<92>>, <<ch>> >> \o unix_escape_items(rest, FALSE)
             ELSE IF in_escape /\ is_ascii_hexdigit(ch)
                  THEN << <<39, 36, 39>>, <<ch>> >> \o unix_escape_items(rest, FALSE)
             ELSE << <<ch>> >> \o unix_escape_items(rest, FALSE)

\* unix::write_escaped: $'...'
unix_write_escaped(bytes) ==
    << <<36, 39>> >> \o unix_escape_items(utf8_items(bytes), FALSE) \o << <<39>> >>

\* the runs of the text between its ASCII single quotes
RECURSIVE unix_split(_, _)
unix_split(text, run) ==
    IF text = <<>> THEN <<run>>
    ELSE IF Head(text) = 39 THEN <<run>> \o unix_split(Tail(text), <<>>)
    ELSE unix_split(Tail(text), Append(run, Head(text)))

unix_run(run) == IF run = <<>> THEN <<>> ELSE write_simple(run, 39)

RECURSIVE unix_later_runs(_)
unix_later_runs(runs) ==
    IF runs = <<>> THEN <<>>
    ELSE << <<92, 39>> >> \o unix_run(Head(runs)) \o unix_later_runs(Tail(runs))

\* unix::write_single_escaped: '...'\''...'
unix_write_single_escaped(text) ==
    LET runs == unix_split(text, <<>>)
    IN  unix_run(Head(runs)) \o unix_later_runs(Tail(runs))

unix_requires_quote(text, fq) ==
    \/ fq
    \/ text = <<>>
    \/ text[1] \in UNIX_SPECIAL_SHELL_CHARS_START
    \/ width_is_zero(text[1])
    \/ \E i \in DOMAIN text :
          \/ text[i] \in UNIX_SPECIAL_SHELL_CHARS
          \/ (~is_ascii(text[i]) /\ unix_is_whitespace(text[i]))

unix_escaped_path(text) ==
    \/ \E i \in DOMAIN text :
          IF is_ascii(text[i]) THEN is_ascii_control(text[i])
          ELSE requires_escape(text[i])
    \/ ((\E i \in DOMAIN text : is_bidi(text[i])) /\ is_suspicious_bidi(text))

\* unix::write
unix_write(text, fq) ==
    IF unix_escaped_path(text) THEN unix_write_escaped(utf8_bytes(text))
    ELSE IF ~unix_requires_quote(text, fq) THEN << text >>
    ELSE IF \A i \in DOMAIN text : text[i] # 39 THEN write_simple(text, 39)
    ELSE IF \A i \in DOMAIN text : text[i] \notin UNIX_DOUBLE_UNSAFE
         THEN write_simple(text, 34)
    ELSE unix_write_single_escaped(text)

(***************************************************************************)
(* lib.rs: Display::fmt.                                                   *)
(***************************************************************************)
\* the match of Display::fmt with the raw arms quoting whatever force_quote is
fmt_raw_forced(k, src, fq) ==
    IF k = "Windows" THEN write(src, fq)
    ELSE IF k = "WindowsRaw"
         THEN IF utf16_valid(src) THEN write(decoded_text(src), TRUE)
              ELSE write_escaped(decode_utf16(src))
    ELSE IF k = "Unix" THEN unix_write(src, fq)
    ELSE IF utf8_valid(src) THEN unix_write(utf8_text(src), TRUE)
    ELSE unix_write_escaped(src)

\* the match of Display::fmt, arms Kind::Unix, Kind::UnixRaw, Kind::Windows and
\* Kind::WindowsRaw
fmt(k, src, fq) ==
    IF k = "Windows" THEN write(src, fq)
    ELSE IF k = "WindowsRaw"
         THEN IF utf16_valid(src) THEN write(decoded_text(src), fq)
              ELSE write_escaped(decode_utf16(src))
    ELSE IF k = "Unix" THEN unix_write(src, fq)
    ELSE IF utf8_valid(src) THEN unix_write(utf8_text(src), fq)
    ELSE unix_write_escaped(src)

(***************************************************************************)
(* Formatting into a sink that never fails (a String, as to_string() does).*)
(***************************************************************************)
TypeOK ==
    /\ kind \in {"Windows", "WindowsRaw", "Unix", "UnixRaw"}
    /\ force_quote \in BOOLEAN
    /\ pc \in {"idle", "writing", "done"}
    /\ result \in {"none", "Ok", "Err"}
    /\ late \in Nat

Init ==
    /\ \/ kind = "Windows" /\ source \in Texts
       \/ kind = "WindowsRaw" /\ source \in RawBuffers
       \/ kind = "Unix" /\ source \in UnixTexts
       \/ kind = "UnixRaw" /\ source \in UnixBuffers
    /\ force_quote \in BOOLEAN
    /\ pc = "idle"
    /\ pending = <<>>
    /\ out = <<>>
    /\ result = "none"
    /\ late = 0

\* Quoted::windows(text).force(fq).to_string()
FmtWindows ==
    /\ pc = "idle"
    /\ kind = "Windows"
    /\ out' = Flatten(fmt(kind, source, force_quote))
    /\ result' = "Ok"
    /\ pc' = "done"
    /\ UNCHANGED <<kind, source, force_quote, pending, late>>

\* Quoted::windows_raw(units).force(fq).to_string()
FmtWindowsRaw ==
    /\ pc = "idle"
    /\ kind = "WindowsRaw"
    /\ out' = Flatten(fmt(kind, source, force_quote))
    /\ result' = "Ok"
    /\ pc' = "done"
    /\ UNCHANGED <<kind, source, force_quote, pending, late>>

\* Quoted::unix(text).force(fq).to_string()
FmtUnix ==
    /\ pc = "idle"
    /\ kind = "Unix"
    /\ out' = Flatten(fmt(kind, source, force_quote))
    /\ result' = "Ok"
    /\ pc' = "done"
    /\ UNCHANGED <<kind, source, force_quote, pending, late>>

\* Quoted::unix_raw(bytes).force(fq).to_string()
FmtUnixRaw ==
    /\ pc = "idle"
    /\ kind = "UnixRaw"
    /\ out' = Flatten(fmt(kind, source, force_quote))
    /\ result' = "Ok"
    /\ pc' = "done"
    /\ UNCHANGED <<kind, source, force_quote, pending, late>>

Next == FmtWindows \/ FmtWindowsRaw \/ FmtUnix \/ FmtUnixRaw

Spec == Init /\ [][Next]_vars

(***************************************************************************)
(* Formatting into a sink that may fail: one step per write.  A failing    *)
(* write may have taken any part of what it was handed.                    *)
(***************************************************************************)
InitSink ==
    /\ \/ kind = "Windows" /\ source \in SeqsUpTo(SinkChars, MaxSinkLen)
       \/ kind = "WindowsRaw" /\ source \in SeqsUpTo(SinkUnits, MaxSinkLen)
    /\ force_quote \in BOOLEAN
    /\ pc = "idle"
    /\ pending = <<>>
    /\ out = <<>>
    /\ result = "none"
    /\ late = 0

\* a failed write that is ignored: the writes after it are still made
on_write_error_ignored(rest) == rest

\* `?` on a failed write: the writer returns the error, the writes after it
\* are not made
on_write_error(rest) == <<>>

\* Display::fmt is entered
SinkBegin ==
    /\ pc = "idle"
    /\ pending' = fmt(kind, source, force_quote)
    /\ pc' = "writing"
    /\ UNCHANGED <<kind, source, force_quote, out, result, late>>

\* the next write_char / write_str, accepted by the sink
SinkWriteOk ==
    /\ pc = "writing"
    /\ pending # <<>>
    /\ out' = out \o Head(pending)
    /\ pending' = Tail(pending)
    /\ late' = IF result = "Err" THEN late + 1 ELSE late
    /\ UNCHANGED <<kind, source, force_quote, pc, result>>

\* the next write_char / write_str, refused by the sink
SinkWriteErr ==
    /\ pc = "writing"
    /\ pending # <<>>
    /\ \E k \in 0..Len(Head(pending)) : out' = out \o SubSeq(Head(pending), 1, k)
    /\ result' = "Err"
    /\ pending' = on_write_error(Tail(pending))
    /\ late' = IF result = "Err" THEN late + 1 ELSE late
    /\ UNCHANGED <<kind, source, force_quote, pc>>

\* Display::fmt returns
SinkReturn ==
    /\ pc = "writing"
    /\ pending = <<>>
    /\ pc' = "done"
    /\ result' = IF result = "Err" THEN "Err" ELSE "Ok"
    /\ UNCHANGED <<kind, source, force_quote, pending, out, late>>

NextSink == SinkBegin \/ SinkWriteOk \/ SinkWriteErr \/ SinkReturn

SpecSink == InitSink /\ [][NextSink]_vars

(***************************************************************************)
(* What the claims speak of.                                               *)
(***************************************************************************)
\* a finished formatting of a valid-text PowerShell source
DoneText == pc = "done" /\ kind = "Windows"

\* the text was routed to write_escaped (lines 84, 102, 108)
escaped_path(text, fq) ==
    LET st == classify(text, fq)
    IN  st.escaped \/ (st.is_bidi /\ is_suspicious_bidi(text))

IsPrefix(p, s) == Len(p) <= Len(s) /\ SubSeq(s, 1, Len(p)) = p

\* begins and ends with the same ASCII quote delimiter
Delimited(s) == Len(s) >= 2 /\ s[1] \in {39, 34} /\ s[Len(s)] = s[1]

DelimitedBy(s, q) == Len(s) >= 2 /\ s[1] = q /\ s[Len(s)] = q

Body(s) == SubSeq(s, 2, Len(s) - 1)

PSSingleQuote == {39, 8216, 8217, 8218, 8219}

PSDoubleQuote == {34, 8220, 8221, 8222}

AsciiControl == (0..31) \cup {127}

(***************************************************************************)
(* A PowerShell token, parsed as the shell parses it.                      *)
(***************************************************************************)
ParseFail == [ok |-> FALSE, val |-> <<>>]

HexVal(c) ==
    IF c \in 48..57 THEN c - 48
    ELSE IF c \in 65..70 THEN c - 55
    ELSE IF c \in 97..102 THEN c - 87
    ELSE 0 - 1

\* the digits of `u{H}, up to the closing brace
RECURSIVE ps_hex(_, _, _)
ps_hex(s, acc, n) ==
    IF s = <<>> THEN [ok |-> FALSE, v |-> 0, rest |-> <<>>]
    ELSE IF Head(s) = 125
         THEN [ok |-> n > 0, v |-> acc, rest |-> Tail(s)]
    ELSE IF HexVal(Head(s)) < 0 THEN [ok |-> FALSE, v |-> 0, rest |-> <<>>]
    ELSE ps_hex(Tail(s), acc * 16 + HexVal(Head(s)), n + 1)

\* backtick followed by e
ps_backtick(e) ==
    IF e = 48 THEN 0
    ELSE IF e = 114 THEN 13
    ELSE IF e = 110 THEN 10
    ELSE IF e = 116 THEN 9
    ELSE IF e = 97 THEN 7
    ELSE IF e = 98 THEN 8
    ELSE IF e = 118 THEN 11
    ELSE IF e = 102 THEN 12
    ELSE e

\* after the opening double quote
RECURSIVE ps_double(_, _)
ps_double(s, acc) ==
    IF s = <<>> THEN ParseFail
    ELSE LET c == Head(s)
             r == Tail(s)
         IN  IF c = 96
             THEN IF r = <<>> THEN ParseFail
                  ELSE IF Head(r) = 117 /\ Len(r) >= 2 /\ r[2] = 123
                       THEN LET h == ps_hex(Tail(Tail(r)), 0, 0)
                            IN  IF h.ok THEN ps_double(h.rest, Append(acc, h.v))
                                ELSE ParseFail
                       ELSE ps_double(Tail(r), Append(acc, ps_backtick(Head(r))))
             ELSE IF c = 36 THEN ParseFail
             ELSE IF c \in PSDoubleQuote
                  THEN IF r = <<>> THEN [ok |-> TRUE, val |-> acc]
                       ELSE IF Head(r) \in PSDoubleQuote
                            THEN ps_double(Tail(r), Append(acc, Head(r)))
                            ELSE ParseFail
             ELSE ps_double(r, Append(acc, c))

\* after the opening single quote
RECURSIVE ps_single(_, _)
ps_single(s, acc) ==
    IF s = <<>> THEN ParseFail
    ELSE LET c == Head(s)
             r == Tail(s)
         IN  IF c \in PSSingleQuote
             THEN IF r = <<>> THEN [ok |-> TRUE, val |-> acc]
                  ELSE IF Head(r) \in PSSingleQuote
                       THEN ps_single(Tail(r), Append(acc, Head(r)))
                       ELSE ParseFail
             ELSE ps_single(r, Append(acc, c))

\* what ends or changes a bare word: space, tab, | & ; < > ( ) { } , $ ` and quotes
PSBareBreakers ==
    {32, 9, 124, 38, 59, 60, 62, 40, 41, 123, 125, 44, 36, 96}
        \cup PSSingleQuote \cup PSDoubleQuote

ps_token(tok) ==
    IF tok = <<>> THEN ParseFail
    ELSE IF Head(tok) \in PSSingleQuote THEN ps_single(Tail(tok), <<>>)
    ELSE IF Head(tok) \in PSDoubleQuote THEN ps_double(Tail(tok), <<>>)
    ELSE IF \E i \in DOMAIN tok : tok[i] \in PSBareBreakers THEN ParseFail
    ELSE [ok |-> TRUE, val |-> tok]

(***************************************************************************)
(* C1                                                                      *)
(***************************************************************************)
\* C1: round trip: for every valid-text source and either forceQuote value,
\* the output, parsed as one PowerShell token, is exactly the source.
C1_RoundTrip ==
    DoneText => ps_token(out) = [ok |-> TRUE, val |-> source]

\* a source with both kinds of quote, written by quote doubling and read back
C1_Witness ==
    /\ DoneText
    /\ source = <<39, 34, 8216>>
    /\ out = <<39, 39, 39, 34, 39, 8216, 39>>
    /\ ps_token(out).val = source

(***************************************************************************)
(* C2                                                                      *)
(***************************************************************************)
\* no rule of the claim flags the text
C2_Unflagged(text) ==
    /\ text # <<>>
    /\ text[1] \notin {126, 35, 64, 33}
    /\ text[1] \notin 48..57
    /\ ~(text[1] = 46 /\ Len(text) >= 2 /\ text[2] \in 48..57)
    /\ ~(is_dash(text[1]) /\ Len(text) > 1)
    /\ ~width_is_zero(text[1])
    /\ \A i \in DOMAIN text :
          /\ text[i] \notin SPECIAL_SHELL_CHARS
          /\ ~is_whitespace(text[i])
          /\ text[i] \notin PSSingleQuote \cup PSDoubleQuote
          /\ text[i] \notin AsciiControl
          /\ ~requires_escape(text[i])
    /\ ~is_suspicious_bidi(text)

\* C2: forceQuote=false and a non-empty source that no rule flags (a leading
\* dash-like character counts only in a string of more than one character):
\* the output is the source, unmodified.
C2_UnflaggedIsBare ==
    (DoneText /\ ~force_quote /\ C2_Unflagged(source)) => out = source

(***************************************************************************)
(* C3                                                                      *)
(***************************************************************************)
\* C3: with forceQuote=true the output begins and ends with the same ASCII
\* quote; with forceQuote=false it is the source itself or the output of
\* forceQuote=true; the single-quote-safe, double-quote-safe and
\* escaped-literal decisions are the same for both values of forceQuote.
C3_ForceQuoteOnlyDelimits ==
    DoneText =>
        LET forced == classify(source, TRUE)
            plain  == classify(source, FALSE)
        IN  /\ force_quote => Delimited(out)
            /\ ~force_quote =>
                  (out = source \/ out = Flatten(write(source, TRUE)))
            /\ forced.is_single_safe = plain.is_single_safe
            /\ forced.is_double_safe = plain.is_double_safe
            /\ escaped_path(source, TRUE) = escaped_path(source, FALSE)

\* a plain word is bare without forceQuote and single-quoted with it; a
\* double-quote lookalike in a text that needs quoting anyway
C3_Witness ==
    /\ DoneText
    /\ force_quote
    /\ source = <<97, 8220, 39>>
    /\ out = <<39, 97, 8220, 39, 39, 39>>
    /\ Flatten(write(<<97>>, FALSE)) = <<97>>
    /\ Flatten(write(<<97>>, TRUE)) = <<39, 97, 39>>

(***************************************************************************)
(* C4                                                                      *)
(***************************************************************************)
\* the text with one ASCII ' before every single-quote-like character
RECURSIVE C4_Doubled(_)
C4_Doubled(text) ==
    IF text = <<>> THEN <<>>
    ELSE IF Head(text) \in PSSingleQuote
         THEN <<39, Head(text)>> \o C4_Doubled(Tail(text))
         ELSE <<Head(text)>> \o C4_Doubled(Tail(text))

C4_Expected(text) ==
    IF \A i \in DOMAIN text : text[i] \notin PSSingleQuote
    THEN <<39>> \o text \o <<39>>
    ELSE IF \A i \in DOMAIN text : text[i] \notin {34, 96, 36} \cup PSDoubleQuote
         THEN <<34>> \o text \o <<34>>
         ELSE <<39>> \o C4_Doubled(text) \o <<39>>

\* C4: when quoting is required and the escaped-literal path is not taken,
\* the output is '...' if the source has no single-quote-like character, else
\* "..." if it has no " ` $ or double-quote lookalike, else '...' with an
\* ASCII ' inserted before every single-quote-like character.
C4_StrategySelection ==
    (/\ DoneText
     /\ classify(source, force_quote).requires_quote
     /\ ~escaped_path(source, force_quote))
        => out = C4_Expected(source)

\* can'"t without the letters: quote doubling
C4_Witness ==
    /\ DoneText
    /\ source = <<97, 39, 34>>
    /\ ~escaped_path(source, force_quote)
    /\ out = <<39, 97, 39, 39, 34, 39>>

(***************************************************************************)
(* C5                                                                      *)
(***************************************************************************)
\* C5: a source with an ASCII control character (U+0000..U+001F, U+007F),
\* anywhere, with either forceQuote, is written by the escaped-literal
\* writer: between ASCII double quotes, with no raw control character.
C5_ControlForcesEscaped ==
    (DoneText /\ \E i \in DOMAIN source : source[i] \in AsciiControl) =>
        /\ out = Flatten(write_escaped(chars_ok(source)))
        /\ DelimitedBy(out, 34)
        /\ \A j \in DOMAIN out : out[j] \notin AsciiControl

\* DEL after a single quote and a double quote, without forceQuote
C5_Witness ==
    /\ DoneText
    /\ ~force_quote
    /\ source = <<39, 127>>
    /\ out = <<34, 39, 96, 117, 123, 55, 70, 125, 34>>

(***************************************************************************)
(* C6                                                                      *)
(***************************************************************************)
\* C6: forceQuote=false and a source whose first character is dash-like
\* (- U+2013 U+2014 U+2015): quoted when the source has more than one
\* character, unquoted when the dash-like character is the whole source.
C6_LeadingDash ==
    (DoneText /\ ~force_quote /\ source # <<>> /\ is_dash(source[1])) =>
        IF Len(source) > 1
        THEN Delimited(out) /\ out # source
        ELSE out = source

(***************************************************************************)
(* C7                                                                      *)
(***************************************************************************)
\* ~ # @ !, the ASCII digits, '.', and the letter a
C7_StartOnly == {126, 35, 64, 33} \cup (48..57) \cup {46, 97}

\* C7: forceQuote=false: the empty source gives ''; a source whose first
\* character is one of ~ # @ !, or an ASCII digit, or '.' followed by an ASCII
\* digit, is quoted; the same characters after a plain first character do not
\* cause quoting.
C7_FirstCharacterRule ==
    (DoneText /\ ~force_quote) =>
        /\ source = <<>> => out = <<39, 39>>
        /\ (/\ source # <<>>
            /\ \/ source[1] \in {126, 35, 64, 33}
               \/ source[1] \in 48..57
               \/ (source[1] = 46 /\ Len(source) >= 2 /\ source[2] \in 48..57))
              => (Delimited(out) /\ out # source)
        /\ (/\ source # <<>>
            /\ source[1] = 97
            /\ \A i \in DOMAIN source : source[i] \in C7_StartOnly)
              => out = source

\* .1a is quoted, a.1 is not
C7_Witness ==
    /\ DoneText
    /\ ~force_quote
    /\ source = <<46, 49, 97>>
    /\ out = <<39, 46, 49, 97, 39>>
    /\ Flatten(write(<<97, 46, 49>>, FALSE)) = <<97, 46, 49>>

(***************************************************************************)
(* The escaped literal, read group by group: one group per backtick escape *)
(* and one per character copied as it is.                                  *)
(***************************************************************************)
\* the index of the first closing brace at or after i, or 0
RECURSIVE BraceAt(_, _)
BraceAt(s, i) ==
    IF i > Len(s) THEN 0 ELSE IF s[i] = 125 THEN i ELSE BraceAt(s, i + 1)

RECURSIVE EscGroups(_)
EscGroups(s) ==
    IF s = <<>> THEN <<>>
    ELSE IF Head(s) = 96 /\ Len(s) >= 3 /\ s[2] = 117 /\ s[3] = 123 /\ BraceAt(s, 4) > 0
         THEN << SubSeq(s, 1, BraceAt(s, 4)) >>
                  \o EscGroups(SubSeq(s, BraceAt(s, 4) + 1, Len(s)))
    ELSE IF Head(s) = 96 /\ Len(s) >= 2
         THEN << SubSeq(s, 1, 2) >> \o EscGroups(SubSeq(s, 3, Len(s)))
    ELSE << <<Head(s)>> >> \o EscGroups(Tail(s))

UpperHexDigits == (48..57) \cup (65..70)

RECURSIVE HexValue(_, _)
HexValue(h, acc) ==
    IF h = <<>> THEN acc ELSE HexValue(Tail(h), acc * 16 + HexVal(Head(h)))

\* g is `u{H}, H uppercase hexadecimal digits with value n
IsUEscape(g, n) ==
    /\ Len(g) >= 5
    /\ SubSeq(g, 1, 3) = <<96, 117, 123>>
    /\ g[Len(g)] = 125
    /\ \A i \in 4..(Len(g) - 1) : g[i] \in UpperHexDigits
    /\ HexValue(SubSeq(g, 4, Len(g) - 1), 0) = n

HexLen(g) == Len(g) - 4

\* NUL CR LF TAB BEL BS VT FF
NamedEscapes == {0, 13, 10, 9, 7, 8, 11, 12}

\* the items handed to write_escaped in this formatting call
EscapedItems ==
    IF kind = "Windows" THEN chars_ok(source) ELSE decode_utf16(source)

\* this formatting call went to write_escaped
OnEscapedPath ==
    /\ pc = "done"
    /\ \/ kind = "Windows" /\ escaped_path(source, force_quote)
       \/ kind = "WindowsRaw" /\ ~utf16_valid(source)
       \/ /\ kind = "WindowsRaw"
          /\ utf16_valid(source)
          /\ escaped_path(decoded_text(source), force_quote)

(***************************************************************************)
(* C8                                                                      *)
(***************************************************************************)
\* C8: a source with suspicious bidi is written by the escaped-literal
\* writer, with either forceQuote: between double quotes, every bidi control
\* as a `u{...} escape of its code point and none raw.
C8_SuspiciousBidiEscaped ==
    (DoneText /\ is_suspicious_bidi(source)) =>
        /\ out = Flatten(write_escaped(chars_ok(source)))
        /\ DelimitedBy(out, 34)
        /\ \A j \in DOMAIN out : ~is_bidi(out[j])
        /\ LET groups == EscGroups(Body(out))
           IN  /\ Len(groups) = Len(source)
               /\ \A i \in DOMAIN source :
                     is_bidi(source[i]) => IsUEscape(groups[i], source[i])

\* an unterminated override after a plain letter, without forceQuote: no
\* other rule asks for a quote
C8_Witness ==
    /\ DoneText
    /\ ~force_quote
    /\ source = <<97, 8238>>
    /\ is_suspicious_bidi(source)
    /\ out = <<34, 97, 96, 117, 123, 50, 48, 50, 69, 125, 34>>

(***************************************************************************)
(* C9                                                                      *)
(***************************************************************************)
\* what one item becomes, double-quote-like characters being copied as they are
C9_GroupOriginal(g, item) ==
    LET c == item.v
    IN  IF ~item.ok THEN IsUEscape(g, c) /\ HexLen(g) = 4
        ELSE IF c = 0 THEN g = <<96, 48>>
        ELSE IF c = 13 THEN g = <<96, 114>>
        ELSE IF c = 10 THEN g = <<96, 110>>
        ELSE IF c = 9 THEN g = <<96, 116>>
        ELSE IF c = 7 THEN g = <<96, 97>>
        ELSE IF c = 8 THEN g = <<96, 98>>
        ELSE IF c = 11 THEN g = <<96, 118>>
        ELSE IF c = 12 THEN g = <<96, 102>>
        ELSE IF requires_escape(c) \/ is_bidi(c)
             THEN /\ IsUEscape(g, c)
                  /\ HexLen(g) >= 2
                  /\ HexLen(g) > 2 => g[4] # 48
        ELSE IF c = 96 THEN g = <<96, 96>>
        ELSE IF c = 36 THEN g = <<96, 36>>
        ELSE g = <<c>>

\* what one item becomes, double-quote-like characters taking a backtick
C9_GroupAmended(g, item) ==
    IF item.ok /\ item.v \in PSDoubleQuote
    THEN g = <<96, item.v>>
    ELSE C9_GroupOriginal(g, item)

\* C9 as stated: the escaped literal is one group per input element between
\* two double quotes: the named escapes, `u{H} (at least two uppercase hex
\* digits) for other requires-escape and bidi characters, `u{HHHH} for an
\* unpaired surrogate, `` and `$, and every other character copied verbatim.
C9_EscapedMapOriginal ==
    OnEscapedPath =>
        /\ DelimitedBy(out, 34)
        /\ LET groups == EscGroups(Body(out))
           IN  /\ Len(groups) = Len(EscapedItems)
               /\ \A i \in DOMAIN groups : C9_GroupOriginal(groups[i], EscapedItems[i])

\* C9 amended: as stated, except that a double-quote-like character (" and
\* U+201C..U+201E) is written as a backtick followed by the character; every
\* other character, backslash and the single-quote-like ones included, is
\* copied verbatim.
C9_EscapedMap ==
    OnEscapedPath =>
        /\ DelimitedBy(out, 34)
        /\ LET groups == EscGroups(Body(out))
           IN  /\ Len(groups) = Len(EscapedItems)
               /\ \A i \in DOMAIN groups : C9_GroupAmended(groups[i], EscapedItems[i])

\* a raw buffer with a double quote, U+0002 and an unpaired surrogate
C9_Witness ==
    /\ pc = "done"
    /\ kind = "WindowsRaw"
    /\ source = <<34, 2, 55296>>
    /\ OnEscapedPath
    /\ out = <<34, 96, 34, 96, 117, 123, 48, 50, 125,
               96, 117, 123, 68, 56, 48, 48, 125, 34>>

(***************************************************************************)
(* C10                                                                     *)
(***************************************************************************)
\* C10: when a write to the sink fails, the formatter returns the failure at
\* once and writes nothing more; what the sink holds is a prefix of the
\* output the same source gives with a sink that never fails, and the whole
\* of it when no write failed.
C10_SinkFailure ==
    /\ IsPrefix(out, Flatten(fmt(kind, source, force_quote)))
    /\ result = "Err" => (pending = <<>> /\ late = 0)
    /\ (pc = "done" /\ result = "Ok") => out = Flatten(fmt(kind, source, force_quote))
    /\ pc = "done" => result \in {"Ok", "Err"}

\* quote doubling cut short: the sink failed after the opening quote, the
\* empty run and the inserted quote
C10_Witness ==
    /\ pc = "done"
    /\ result = "Err"
    /\ kind = "Windows"
    /\ source = <<39, 34>>
    /\ out = <<39, 39>>
    /\ late = 0

(***************************************************************************)
(* C11                                                                     *)
(***************************************************************************)
\* C11 as stated: in the escaped literal every quote-confusable character,
\* single-quote-like or double-quote-like, is written as a backtick followed
\* by the character, never bare and never doubled.
C11_QuotesBacktickedOriginal ==
    OnEscapedPath =>
        LET groups == EscGroups(Body(out))
        IN  /\ Len(groups) = Len(EscapedItems)
            /\ \A i \in DOMAIN groups :
                  (/\ EscapedItems[i].ok
                   /\ EscapedItems[i].v \in PSSingleQuote \cup PSDoubleQuote)
                      => groups[i] = <<96, EscapedItems[i].v>>

\* C11 amended: in the escaped literal every double-quote-like character
\* (" and U+201C..U+201E) is written as a backtick followed by the character,
\* never bare and never doubled; a single-quote-like character (' and
\* U+2018..U+201B) is copied as it is, without a backtick and not doubled.
C11_DoubleQuotesBackticked ==
    OnEscapedPath =>
        LET groups == EscGroups(Body(out))
        IN  /\ Len(groups) = Len(EscapedItems)
            /\ \A i \in DOMAIN groups :
                  /\ (EscapedItems[i].ok /\ EscapedItems[i].v \in PSDoubleQuote)
                        => groups[i] = <<96, EscapedItems[i].v>>
                  /\ (EscapedItems[i].ok /\ EscapedItems[i].v \in PSSingleQuote)
                        => groups[i] = <<EscapedItems[i].v>>

\* a single-quote lookalike and a double-quote lookalike before a line feed
C11_Witness ==
    /\ DoneText
    /\ OnEscapedPath
    /\ source = <<8216, 8220, 10>>
    /\ out = <<34, 8216, 96, 8220, 96, 110, 34>>

(***************************************************************************)
(* C12                                                                     *)
(***************************************************************************)
\* the 16-bit units an item stands for
C12_ItemUnits(item) ==
    IF ~item.ok \/ item.v < 65536 THEN <<item.v>>
    ELSE <<55296 + ((item.v - 65536) \div 1024), 56320 + ((item.v - 65536) % 1024)>>

RECURSIVE C12_Units(_)
C12_Units(items) ==
    IF items = <<>> THEN <<>>
    ELSE C12_ItemUnits(Head(items)) \o C12_Units(Tail(items))

\* the bytes an item stands for
RECURSIVE C12_Bytes(_)
C12_Bytes(items) ==
    IF items = <<>> THEN <<>>
    ELSE (IF Head(items).ok THEN utf8_encode(Head(items).v) ELSE <<Head(items).v>>)
             \o C12_Bytes(Tail(items))

C12_Scalar(c) == c \in 0..1114111 /\ c \notin 55296..57343

\* the decoded items are characters, the failures are surrogates, and no high
\* surrogate that failed is followed by a low surrogate that failed
C12_WellPaired(items) ==
    /\ \A i \in DOMAIN items :
          IF items[i].ok THEN C12_Scalar(items[i].v)
          ELSE items[i].v \in 55296..57343
    /\ \A i \in 1..(Len(items) - 1) :
          ~(/\ ~items[i].ok
            /\ ~items[i + 1].ok
            /\ items[i].v \in 55296..56319
            /\ items[i + 1].v \in 56320..57343)

AllOk(items) == \A i \in DOMAIN items : items[i].ok

ItemValues(items) == [i \in 1..Len(items) |-> items[i].v]

\* C12: a raw buffer that decodes is formatted as the valid-text source of
\* the same dialect that encodes to it, with the same forceQuote; a raw buffer
\* that does not decode goes whole to the dialect's escaped-literal writer,
\* whatever forceQuote is, paired surrogates as the decoded character and
\* only unpaired units as decode failures.
C12_RawDispatch ==
    pc = "done" =>
        /\ kind = "WindowsRaw" =>
              LET items == decode_utf16(source)
              IN  /\ C12_Units(items) = source
                  /\ C12_WellPaired(items)
                  /\ IF AllOk(items)
                     THEN out = Flatten(fmt("Windows", ItemValues(items), force_quote))
                     ELSE /\ out = Flatten(write_escaped(items))
                          /\ DelimitedBy(out, 34)
                          /\ out = Flatten(fmt(kind, source, ~force_quote))
        /\ kind = "UnixRaw" =>
              LET items == utf8_items(source)
              IN  /\ C12_Bytes(items) = source
                  /\ \A i \in DOMAIN items : items[i].ok => C12_Scalar(items[i].v)
                  /\ IF AllOk(items)
                     THEN out = Flatten(fmt("Unix", ItemValues(items), force_quote))
                     ELSE /\ out = Flatten(unix_write_escaped(source))
                          /\ SubSeq(out, 1, 2) = <<36, 39>>
                          /\ out = Flatten(fmt(kind, source, ~force_quote))

\* a surrogate pair followed by an unpaired high surrogate, without forceQuote
C12_Witness ==
    /\ pc = "done"
    /\ kind = "WindowsRaw"
    /\ ~force_quote
    /\ source = <<55296, 56320, 55296>>
    /\ out = <<34, 65536, 96, 117, 123, 68, 56, 48, 48, 125, 34>>

====
